---- MODULE Spec2Model ----
(***************************************************************************)
(* A model of the retrieval core of the legal assistant:                   *)
(*   - parse_slpc_sections (slpc_pdf_extractor.py), the line scan that     *)
(*     turns the extracted text into section records;                      *)
(*   - build_slpc_vectordb (slpc_vectordb_builder.py) and                  *)
(*     search_slpc_sections (tools/slpc_sections_search_tool.py), the      *)
(*     build and the query of the persisted Chroma collection.             *)
(* Strings are sequences of one-character strings, so that strip() and     *)
(* the two regular expressions are computed character by character.        *)
(***************************************************************************)
EXTENDS Integers, Sequences, FiniteSets, TLC

VARIABLES lines, i, j, current_chapter, current_chapter_num, section_desc,
          sections, pc, h_outer, h_emit,
          store, call, h_builds

parseVars == <<lines, i, j, current_chapter, current_chapter_num,
               section_desc, sections, pc, h_outer, h_emit>>
indexVars == <<store, call, h_builds>>
vars == <<lines, i, j, current_chapter, current_chapter_num, section_desc,
          sections, pc, h_outer, h_emit, store, call, h_builds>>

(***************************************************************************)
(* Bounds of the model.                                                    *)
(***************************************************************************)
\* The longest text, in lines.
MaxLines == 4

\* The most records in the JSON file of a build.
MaxRecords == 4

\* The most builds that reach the index in one run.
MaxBuilds == 2

(***************************************************************************)
(* Characters.                                                             *)
(***************************************************************************)
Whitespace == {" ", "\t"}

Digits == {"0", "1", "2", "3", "4", "5", "6", "7", "8", "9"}

DigitValue ==
  ("0" :> 0) @@ ("1" :> 1) @@ ("2" :> 2) @@ ("3" :> 3) @@ ("4" :> 4) @@
  ("5" :> 5) @@ ("6" :> 6) @@ ("7" :> 7) @@ ("8" :> 8) @@ ("9" :> 9)

UpperToLower ==
  ("A" :> "a") @@ ("B" :> "b") @@ ("C" :> "c") @@ ("D" :> "d") @@
  ("E" :> "e") @@ ("F" :> "f") @@ ("G" :> "g") @@ ("H" :> "h") @@
  ("I" :> "i") @@ ("J" :> "j") @@ ("K" :> "k") @@ ("L" :> "l") @@
  ("M" :> "m") @@ ("N" :> "n") @@ ("O" :> "o") @@ ("P" :> "p") @@
  ("Q" :> "q") @@ ("R" :> "r") @@ ("S" :> "s") @@ ("T" :> "t") @@
  ("U" :> "u") @@ ("V" :> "v") @@ ("W" :> "w") @@ ("X" :> "x") @@
  ("Y" :> "y") @@ ("Z" :> "z")

\* re.IGNORECASE compares characters after case folding.
Lower(c) == IF c \in DOMAIN UpperToLower THEN UpperToLower[c] ELSE c

\* [IVXLCDM] under re.IGNORECASE.
RomanChars == {"I", "V", "X", "L", "C", "D", "M",
               "i", "v", "x", "l", "c", "d", "m"}

\* [:\s] of chapter_pattern and [:\.\s] of section_pattern.
ChapterSeps == {":"} \cup Whitespace

SectionSeps == {":", "."} \cup Whitespace

(***************************************************************************)
(* str.strip(): the string without its leading and trailing whitespace.    *)
(***************************************************************************)
Strip(s) ==
  LET nonWs == {k \in 1..Len(s) : s[k] \notin Whitespace}
  IN  IF nonWs = {} THEN <<>>
      ELSE LET lo == CHOOSE k \in nonWs : \A m \in nonWs : k <= m
               hi == CHOOSE k \in nonWs : \A m \in nonWs : k >= m
           IN  SubSeq(s, lo, hi)

\* The number of leading characters of s that are in Class (a greedy X*).
PrefixLen(s, Class) ==
  CHOOSE n \in 0..Len(s) :
    /\ \A k \in 1..n : s[k] \in Class
    /\ n = Len(s) \/ s[n + 1] \notin Class

\* Whether s starts with the keyword kw, compared case-insensitively.
HasPrefixCI(s, kw) ==
  /\ Len(s) >= Len(kw)
  /\ \A k \in 1..Len(kw) : Lower(s[k]) = Lower(kw[k])

Drop(s, n) == SubSeq(s, n + 1, Len(s))

NoMatch == [ok |-> FALSE, g1 |-> <<>>, g2 |-> <<>>]

(***************************************************************************)
(* The tail of both patterns: a number (one or more characters of         *)
(* NumClass, group 1), any separators (SepClass), and the rest of the line *)
(* (one or more characters, group 2). It is matched as the backtracking    *)
(* engine matches it: the longest number first, then the longest run of    *)
(* separators, such that at least one character is left for group 2.       *)
(***************************************************************************)
NumSepRest(rest, NumClass, SepClass) ==
  LET D == PrefixLen(rest, NumClass)
      cands == {c \in (1..D) \X (0..Len(rest)) :
                  /\ c[2] <= PrefixLen(Drop(rest, c[1]), SepClass)
                  /\ c[1] + c[2] < Len(rest)}
  IN  IF cands = {} THEN NoMatch
      ELSE LET best == CHOOSE c \in cands : \A d \in cands :
                         c[1] > d[1] \/ (c[1] = d[1] /\ c[2] >= d[2])
           IN  [ok |-> TRUE,
                g1 |-> SubSeq(rest, 1, best[1]),
                g2 |-> Drop(rest, best[1] + best[2])]

KwChapter == <<"c", "h", "a", "p", "t", "e", "r">>

KwSection == <<"s", "e", "c", "t", "i", "o", "n">>

KwSectionSign == <<"§">>

\* re.match(chapter_pattern, line, re.IGNORECASE)
chapter_match(line) ==
  IF ~HasPrefixCI(line, KwChapter) THEN NoMatch
  ELSE LET t == Drop(line, Len(KwChapter))
           ws == PrefixLen(t, Whitespace)
           rest == Drop(t, ws)
           roman == NumSepRest(rest, RomanChars, ChapterSeps)
       IN  IF ws = 0 THEN NoMatch
           ELSE IF roman.ok THEN roman
           ELSE NumSepRest(rest, Digits, ChapterSeps)

\* re.match(section_pattern, line, re.IGNORECASE)
section_match(line) ==
  LET kw == IF HasPrefixCI(line, KwSection) THEN Len(KwSection)
            ELSE IF HasPrefixCI(line, KwSectionSign) THEN Len(KwSectionSign)
            ELSE 0
      t == Drop(line, kw)
  IN  IF kw = 0 THEN NoMatch
      ELSE NumSepRest(Drop(t, PrefixLen(t, Whitespace)), Digits, SectionSeps)

\* int(section_match.group(1))
RECURSIVE ToInt(_)
ToInt(ds) ==
  IF ds = <<>> THEN 0
  ELSE 10 * ToInt(SubSeq(ds, 1, Len(ds) - 1)) + DigitValue[ds[Len(ds)]]

(***************************************************************************)
(* The lines the input texts are made of.                                  *)
(***************************************************************************)
\* "": the empty line
LnEmpty == <<>>

\* "CHAPTER I General": a chapter heading, roman numbering
LnChapterI ==
    <<"C", "H", "A", "P", "T", "E", "R", " ",
    "I", " ", "G", "e", "n", "e", "r", "a", "l">>

\* " chapter 2: Of b": a chapter heading in lower case, arabic numbering, padded
LnChapter2 ==
    <<" ", "c", "h", "a", "p", "t", "e", "r",
    " ", "2", ":", " ", "O", "f", " ", "b">>

\* "CHAPTER XVI": a chapter heading without a title
LnChapterXVI == <<"C", "H", "A", "P", "T", "E", "R", " ", "X", "V", "I">>

\* "Section 1. Short": a section heading
LnSection1 ==
    <<"S", "e", "c", "t", "i", "o", "n", " ",
    "1", ".", " ", "S", "h", "o", "r", "t">>

\* "\t§12 ": a section heading with the section sign and no title, padded
LnSign12 == <<"\t", "§", "1", "2", " ">>

\* "Section 5": a section label with one digit and no title
LnSection5 == <<"S", "e", "c", "t", "i", "o", "n", " ", "5">>

\* " a b ": a line of body text, padded
LnBody == <<" ", "a", " ", "b", " ">>

LineSet == {LnEmpty, LnChapterI, LnChapter2, LnChapterXVI,
            LnSection1, LnSign12, LnSection5, LnBody}

\* The two matches of every stripped line, computed once: the scan looks a
\* line's matches up here instead of running the two patterns again.
MatchTable ==
  [s \in {Strip(l) : l \in LineSet} |->
     [chapter |-> chapter_match(s), section |-> section_match(s)]]

ChapterMatch(line) == MatchTable[line].chapter

SectionMatch(line) == MatchTable[line].section

\* The texts: text.split('\n') of a text with n - 1 newlines is n lines.
Texts == UNION {[1..n -> LineSet] : n \in 1..MaxLines}

(***************************************************************************)
(* parse_slpc_sections. i and j count from 0, as in the code.              *)
(***************************************************************************)
\* A value of Python's int and of Python's str (chapter is 0, then a str).
PyInt(n) == [t |-> "int", v |-> n]

PyStr(s) == [t |-> "str", v |-> s]

Unknown == <<"U", "n", "k", "n", "o", "w", "n">>

\* lines[k].strip()
LineAt(k) == Strip(lines[k + 1])

\* A scan that does not move on.
AdvanceStuck(ii) == ii

\* i += 1
Advance(ii) == ii + 1

\* An inner loop that stops at section headings only.
IsBoundarySectionOnly(next_line) == SectionMatch(next_line).ok

\* The test that ends the inner loop: another section or chapter heading.
IsBoundary(next_line) ==
  ChapterMatch(next_line).ok \/ SectionMatch(next_line).ok

\* An assignment in the place of the +=.
CollectOverwrite(desc, next_line) ==
  IF next_line # <<>> THEN next_line \o <<" ">> ELSE desc

\* if next_line: section_desc += next_line + " "
Collect(desc, next_line) ==
  IF next_line # <<>> THEN desc \o next_line \o <<" ">> ELSE desc

\* An append without the test of the body.
EmitSectionAlways(secs, rec) == Append(secs, rec)

\* if section_desc: sections.append({...})
EmitSection(secs, rec) ==
  IF rec.section_desc # <<>> THEN Append(secs, rec) ELSE secs

\* A scan that resumes after the line that ended the body.
ResumeAfter(jj) == jj + 1

\* i = j
Resume(jj) == jj

ParseInit ==
  /\ lines \in Texts
  /\ i = 0
  /\ j = 0
  /\ current_chapter = Unknown
  /\ current_chapter_num = PyInt(0)
  /\ section_desc = <<>>
  /\ sections = <<>>
  /\ pc = "outer"
  /\ h_outer = <<>>
  /\ h_emit = <<>>

\* The outer loop at a chapter heading.
OuterChapter ==
  /\ pc = "outer"
  /\ i < Len(lines)
  /\ LET chapter == ChapterMatch(LineAt(i))
     IN  /\ chapter.ok
         /\ current_chapter_num' = PyStr(chapter.g1)
         /\ current_chapter' = Strip(chapter.g2)
  /\ i' = Advance(i)
  /\ h_outer' = Append(h_outer, i)
  /\ UNCHANGED <<lines, j, section_desc, sections, pc, h_emit>>

\* The outer loop at a section heading: the inner loop starts.
OuterSection ==
  /\ pc = "outer"
  /\ i < Len(lines)
  /\ ~ChapterMatch(LineAt(i)).ok
  /\ SectionMatch(LineAt(i)).ok
  /\ section_desc' = <<>>
  /\ j' = i + 1
  /\ pc' = "inner"
  /\ h_outer' = Append(h_outer, i)
  /\ UNCHANGED <<lines, i, current_chapter, current_chapter_num, sections,
                 h_emit>>

\* The outer loop at a line that matches neither pattern.
OuterOther ==
  /\ pc = "outer"
  /\ i < Len(lines)
  /\ ~ChapterMatch(LineAt(i)).ok
  /\ ~SectionMatch(LineAt(i)).ok
  /\ i' = Advance(i)
  /\ h_outer' = Append(h_outer, i)
  /\ UNCHANGED <<lines, j, current_chapter, current_chapter_num,
                 section_desc, sections, pc, h_emit>>

\* One iteration of the inner loop that does not break.
InnerCollect ==
  /\ pc = "inner"
  /\ j < Len(lines)
  /\ ~IsBoundary(LineAt(j))
  /\ section_desc' = Collect(section_desc, LineAt(j))
  /\ j' = j + 1
  /\ UNCHANGED <<lines, i, current_chapter, current_chapter_num, sections,
                 pc, h_outer, h_emit>>

\* The inner loop ends (break, or the end of the text): strip, emit, i = j.
SectionClose ==
  /\ pc = "inner"
  /\ IF j < Len(lines) THEN IsBoundary(LineAt(j)) ELSE TRUE
  /\ LET section == SectionMatch(LineAt(i))
         rec == [chapter |-> current_chapter_num,
                 chapter_title |-> current_chapter,
                 Section |-> ToInt(section.g1),
                 section_title |-> Strip(section.g2),
                 section_desc |-> Strip(section_desc)]
     IN  /\ sections' = EmitSection(sections, rec)
         /\ h_emit' = IF Len(sections') > Len(sections)
                      THEN Append(h_emit, [head |-> i, end |-> j])
                      ELSE h_emit
  /\ section_desc' = Strip(section_desc)
  /\ i' = Resume(j)
  /\ pc' = "outer"
  /\ UNCHANGED <<lines, j, current_chapter, current_chapter_num, h_outer>>

\* while i < len(lines) is false: return sections
Return ==
  /\ pc = "outer"
  /\ i >= Len(lines)
  /\ pc' = "done"
  /\ UNCHANGED <<lines, i, j, current_chapter, current_chapter_num,
                 section_desc, sections, h_outer, h_emit>>

ParseNext ==
  \/ OuterChapter /\ UNCHANGED indexVars
  \/ OuterSection /\ UNCHANGED indexVars
  \/ OuterOther /\ UNCHANGED indexVars
  \/ InnerCollect /\ UNCHANGED indexVars
  \/ SectionClose /\ UNCHANGED indexVars
  \/ Return /\ UNCHANGED indexVars

(***************************************************************************)
(* The persisted index. store maps the collections that exist, each a      *)
(* (persist directory, collection name), to the entries they hold (a       *)
(* document and its embedding), in the order they were added. call is     *)
(* what the last call was given and gave; h_builds lists the builds that   *)
(* reached the index.                                                      *)
(***************************************************************************)
\* os.getenv of a variable that is not set.
Unset == "<unset>"

Directories == {"db"}

CollectionNames == {"slpc", "other"}

JsonPaths == {"slpc.json"}

\* Default number of results to return from similarity search
DEFAULT_TOP_K == 3

\* str(n) of a natural number.
RECURSIVE ToStr(_)
ToStr(n) ==
  LET digit == CHOOSE d \in Digits : DigitValue[d] = n % 10
  IN  IF n < 10 THEN <<digit>> ELSE ToStr(n \div 10) \o <<digit>>

\* The records of the JSON files: record n is section n, as the scan emits
\* it under no chapter (n odd) or under chapter "I General" (n even).
RecordOf(n) ==
  [chapter |-> IF n % 2 = 1 THEN PyInt(0) ELSE PyStr(<<"I">>),
   chapter_title |-> IF n % 2 = 1 THEN Unknown
                     ELSE <<"G", "e", "n", "e", "r", "a", "l">>,
   Section |-> n,
   section_title |-> <<"t">> \o ToStr(n),
   section_desc |-> <<"d">> \o ToStr(n)]

\* load_slpc_data: the JSON files hold the first n records, n <= MaxRecords.
CorpusOf(n) == [k \in 1..n |-> RecordOf(k)]

Corpora == {CorpusOf(n) : n \in 0..MaxRecords}

\* f"Section {entry['Section']}: {entry['section_title']}\n\n{...}"
PageContent(entry) ==
  <<"S", "e", "c", "t", "i", "o", "n", " ">> \o ToStr(entry.Section)
    \o <<":", " ">> \o entry.section_title \o <<"\n", "\n">>
    \o entry.section_desc

\* One Document of prepare_documents.
DocumentOf(entry) ==
  [page_content |-> PageContent(entry),
   metadata |-> [chapter |-> entry.chapter,
                 chapter_title |-> entry.chapter_title,
                 section |-> entry.Section,
                 section_title |-> entry.section_title]]

prepare_documents(slpc_data) ==
  [k \in 1..Len(slpc_data) |-> DocumentOf(slpc_data[k])]

\* One dictionary of the list search_slpc_sections returns.
FormatResult(doc) ==
  [section |-> doc.metadata.section,
   section_title |-> doc.metadata.section_title,
   chapter |-> doc.metadata.chapter,
   chapter_title |-> doc.metadata.chapter_title,
   content |-> doc.page_content]

\* HuggingFaceEmbeddings, the same at build and at query. The embedding
\* model is outside the repository: here a text is embedded as a point of a
\* line, the value of its first digit (0 when it has none), so that the
\* text of section n lies at n.
Embed(text) ==
  LET ds == {k \in 1..Len(text) : text[k] \in Digits}
  IN  IF ds = {} THEN 0
      ELSE DigitValue[text[CHOOSE k \in ds : \A m \in ds : k <= m]]

Distance(a, b) == IF a >= b THEN a - b ELSE b - a

\* The queries: about nothing in particular, about section 2, and about
\* section 9.
QueryTexts == {<<"q">>, <<"q", "2">>, <<"q", "9">>}

\* A search without its k argument: similarity_search's own default, 4.
SearchKLibraryDefault == DEFAULT_TOP_K + 1

\* similarity_search(query, k=DEFAULT_TOP_K)
SearchK == DEFAULT_TOP_K

EmptyStore == [key \in {} |-> <<>>]

\* Chroma(collection_name, persist_directory, ...): the constructor gets the
\* collection or creates it, empty (get_or_create_collection).
GetOrCreate(st, key) ==
  IF key \in DOMAIN st THEN st
  ELSE [c \in DOMAIN st \cup {key} |-> IF c = key THEN <<>> ELSE st[c]]

\* Chroma.from_documents: the constructor, then every document is added
\* with its embedding, under a fresh id, after the entries the collection
\* holds.
FromDocuments(st, key, documents) ==
  [GetOrCreate(st, key) EXCEPT ![key] =
     @ \o [n \in 1..Len(documents) |->
             [document |-> documents[n],
              embedding |-> Embed(documents[n].page_content)]]]

\* Chroma.from_documents of an empty list: the collection is created, and
\* the add of no documents is refused (a ValueError for the empty ids).
BuildOutcome(documents) ==
  IF documents = <<>> THEN "BackendError" ELSE "ok"

Min(a, b) == IF a <= b THEN a ELSE b

\* The rankings of the m nearest of the entries left: the nearest first,
\* entries at the same distance in either order.
RECURSIVE Nearest(_, _, _, _)
Nearest(entries, point, left, m) ==
  IF m = 0 \/ left = {} THEN {<<>>}
  ELSE LET dist == [x \in left |-> Distance(point, entries[x].embedding)]
           best == {x \in left : \A y \in left : dist[x] <= dist[y]}
       IN  UNION {{<<x>> \o r :
                     r \in Nearest(entries, point, left \ {x}, m - 1)}
                    : x \in best}

\* vector_db.similarity_search(query, k): the documents of the k nearest
\* entries of the collection, or of all of them when it holds fewer.
similarity_search(entries, query, k) ==
  {[n \in 1..Len(r) |-> entries[r[n]].document] :
     r \in Nearest(entries, Embed(query), 1..Len(entries), k)}

NoCall ==
  [op |-> "none", dir |-> Unset, name |-> Unset, query |-> <<>>,
   outcome |-> "none", opened |-> FALSE, result |-> <<>>]

IndexIdle == store = EmptyStore /\ call = NoCall /\ h_builds = <<>>

IndexInit == IndexIdle

\* build_slpc_vectordb, under the environment (json, dir, name) and with
\* slpc_data in the JSON file.
build_slpc_vectordb(json, dir, name, slpc_data) ==
  IF json = Unset \/ dir = Unset \/ name = Unset
  THEN /\ call' = [op |-> "build", dir |-> dir, name |-> name,
                   query |-> <<>>, outcome |-> "EnvironmentError",
                   opened |-> FALSE, result |-> <<>>]
       /\ UNCHANGED <<store, h_builds>>
  ELSE /\ Len(h_builds) < MaxBuilds
       /\ LET documents == prepare_documents(slpc_data)
          IN  /\ store' = FromDocuments(store, <<dir, name>>, documents)
              /\ call' = [op |-> "build", dir |-> dir, name |-> name,
                          query |-> <<>>, outcome |-> BuildOutcome(documents),
                          opened |-> TRUE, result |-> <<>>]
              /\ h_builds' = Append(h_builds,
                                    [key |-> <<dir, name>>,
                                     count |-> Len(slpc_data),
                                     outcome |-> BuildOutcome(documents)])

Build ==
  \E json \in JsonPaths \cup {Unset}, dir \in Directories \cup {Unset},
     name \in CollectionNames \cup {Unset}, slpc_data \in Corpora :
    build_slpc_vectordb(json, dir, name, slpc_data)

\* search_slpc_sections(query), under the environment (dir, name). Only the
\* directory is tested; a collection name that is not set reaches the
\* Chroma constructor, which opens the directory and refuses the name.
search_slpc_sections(query, dir, name) ==
  IF dir = Unset
  THEN /\ call' = [op |-> "query", dir |-> dir, name |-> name,
                   query |-> query, outcome |-> "EnvironmentError",
                   opened |-> FALSE, result |-> <<>>]
       /\ UNCHANGED <<store, h_builds>>
  ELSE IF name = Unset
  THEN /\ call' = [op |-> "query", dir |-> dir, name |-> name,
                   query |-> query, outcome |-> "BackendError",
                   opened |-> TRUE, result |-> <<>>]
       /\ UNCHANGED <<store, h_builds>>
  ELSE /\ store' = GetOrCreate(store, <<dir, name>>)
       /\ \E docs \in similarity_search(store'[<<dir, name>>], query, SearchK) :
            call' = [op |-> "query", dir |-> dir, name |-> name,
                     query |-> query, outcome |-> "ok", opened |-> TRUE,
                     result |-> [n \in 1..Len(docs) |-> FormatResult(docs[n])]]
       /\ UNCHANGED h_builds

Query ==
  \E query \in QueryTexts, dir \in Directories \cup {Unset},
     name \in CollectionNames \cup {Unset} :
    search_slpc_sections(query, dir, name)

ParseIdle ==
  /\ lines = <<LnEmpty>>
  /\ i = 0
  /\ j = 0
  /\ current_chapter = Unknown
  /\ current_chapter_num = PyInt(0)
  /\ section_desc = <<>>
  /\ sections = <<>>
  /\ pc = "done"
  /\ h_outer = <<>>
  /\ h_emit = <<>>

IndexNext ==
  \/ Build /\ UNCHANGED parseVars
  \/ Query /\ UNCHANGED parseVars

\* The index before any build, with no scan running.
InitIndex ==
  /\ IndexInit
  /\ ParseIdle

\* A scan about to start on a text, the index untouched.
InitParse ==
  /\ ParseInit
  /\ IndexIdle

SpecIndex == InitIndex /\ [][IndexNext]_vars

SpecParse == InitParse /\ [][ParseNext]_vars

(***************************************************************************)
(* The vocabulary of the properties of the scan, in terms of the text.     *)
(***************************************************************************)
IsChapterLine(k) == ChapterMatch(LineAt(k)).ok

IsSectionLine(k) == ~IsChapterLine(k) /\ SectionMatch(LineAt(k)).ok

IsHeadingLine(k) == IsChapterLine(k) \/ IsSectionLine(k)

IsBlankLine(k) == LineAt(k) = <<>>

\* The first heading line after line h, or the length of the text.
NextHeading(h) ==
  LET hs == {k \in (h + 1)..(Len(lines) - 1) : IsHeadingLine(k)}
  IN  IF hs = {} THEN Len(lines)
      ELSE CHOOSE k \in hs : \A m \in hs : k <= m

\* The stripped non-blank lines from line k up to line e, e excluded.
RECURSIVE NonBlankFrom(_, _)
NonBlankFrom(k, e) ==
  IF k >= e THEN <<>>
  ELSE (IF IsBlankLine(k) THEN <<>> ELSE <<LineAt(k)>>)
       \o NonBlankFrom(k + 1, e)

\* The non-blank lines strictly between heading h and the next heading.
BodyLines(h) == NonBlankFrom(h + 1, NextHeading(h))

\* The strings of ws joined by single spaces.
RECURSIVE JoinWords(_)
JoinWords(ws) ==
  IF ws = <<>> THEN <<>>
  ELSE IF Len(ws) = 1 THEN ws[1]
  ELSE ws[1] \o <<" ">> \o JoinWords(SubSeq(ws, 2, Len(ws)))

\* The section heading lines from line k on, in the order of the text.
RECURSIVE SectionHeadsFrom(_)
SectionHeadsFrom(k) ==
  IF k >= Len(lines) THEN <<>>
  ELSE (IF IsSectionLine(k) THEN <<k>> ELSE <<>>) \o SectionHeadsFrom(k + 1)

SectionHeads == SectionHeadsFrom(0)

\* Every section heading is followed by a non-blank line that is no heading.
WellFormedText ==
  \A h \in 0..(Len(lines) - 1) :
    IsSectionLine(h) =>
      /\ h + 1 < Len(lines)
      /\ ~IsBlankLine(h + 1)
      /\ ~IsHeadingLine(h + 1)

\* The chapter context the chapter headings before line h give.
ExpectedChapter(h) ==
  LET cs == {k \in 0..(h - 1) : IsChapterLine(k)}
  IN  IF cs = {} THEN [num |-> PyInt(0), title |-> Unknown]
      ELSE LET c == CHOOSE k \in cs : \A m \in cs : k >= m
               chapter == ChapterMatch(LineAt(c))
           IN  [num |-> PyStr(chapter.g1), title |-> Strip(chapter.g2)]

Visited == {h_outer[k] : k \in 1..Len(h_outer)}

(***************************************************************************)
(* C1: every emitted record has a non-empty section_desc, and a section    *)
(* heading whose body is empty (it is followed directly by a heading, by   *)
(* blank lines only, or by the end of the text) has no record.             *)
(***************************************************************************)
C1_NonEmptyBody ==
  /\ \A k \in 1..Len(sections) : sections[k].section_desc # <<>>
  /\ \A k \in 1..Len(h_emit) : BodyLines(h_emit[k].head) # <<>>

\* The scan is over; one heading gave a record and another, with an empty
\* body, gave none.
C1_Witness ==
  /\ pc = "done"
  /\ Len(sections) >= 1
  /\ \E h \in 0..(Len(lines) - 1) : IsSectionLine(h) /\ BodyLines(h) = <<>>

(***************************************************************************)
(* C5: for a text whose N section headings are each followed by a          *)
(* non-blank line that is no heading, the scan returns exactly N records,  *)
(* the k-th being that of the k-th section heading of the text.            *)
(***************************************************************************)
C5_OneRecordPerHeading ==
  (pc = "done" /\ WellFormedText) =>
    /\ Len(sections) = Len(SectionHeads)
    /\ \A k \in 1..Len(sections) :
         LET section == SectionMatch(LineAt(SectionHeads[k]))
         IN  /\ sections[k].Section = ToInt(section.g1)
             /\ sections[k].section_title = Strip(section.g2)
             /\ h_emit[k].head = SectionHeads[k]

\* A well-formed text with two different section headings has been scanned.
C5_Witness ==
  /\ pc = "done"
  /\ WellFormedText
  /\ Len(SectionHeads) >= 2
  /\ LineAt(SectionHeads[1]) # LineAt(SectionHeads[2])

(***************************************************************************)
(* C8: a body ends at the first heading after its section heading; that    *)
(* line is not part of the body and the outer scan resumes at it, so no    *)
(* heading line is skipped; the body is the non-blank lines between the    *)
(* two, in order.                                                          *)
(***************************************************************************)
C8_BoundaryNotConsumed ==
  /\ \A k \in 1..Len(h_emit) :
       /\ h_emit[k].end = NextHeading(h_emit[k].head)
       /\ k <= Len(sections)
       /\ sections[k].section_desc = JoinWords(BodyLines(h_emit[k].head))
  /\ (pc \in {"outer", "done"} /\ h_outer # <<>>) =>
       LET last == h_outer[Len(h_outer)]
       IN  i = IF IsSectionLine(last) THEN NextHeading(last) ELSE last + 1
  /\ \A k \in 0..(Len(lines) - 1) :
       (IsHeadingLine(k) /\ k < (IF pc = "inner" THEN j ELSE i)) =>
         k \in Visited

\* A record whose body has two lines and ends at a heading, the scan being
\* past that heading.
C8_Witness ==
  \E k \in 1..Len(h_emit) :
    /\ Len(BodyLines(h_emit[k].head)) >= 2
    /\ h_emit[k].end < Len(lines)
    /\ h_emit[k].end \in Visited

(***************************************************************************)
(* Every record carries the number and the title of the nearest chapter    *)
(* heading before its section heading, or chapter 0, "Unknown" when there  *)
(* is none.                                                                *)
(***************************************************************************)
C9_ChapterOfRecord ==
  \A k \in 1..Len(h_emit) :
    /\ k <= Len(sections)
    /\ sections[k].chapter = ExpectedChapter(h_emit[k].head).num
    /\ sections[k].chapter_title = ExpectedChapter(h_emit[k].head).title

ScanMeasure ==
  IF pc = "done" THEN 0
  ELSE IF pc = "outer" THEN 2 * (Len(lines) - i) + 1
  ELSE 2 * (Len(lines) - j) + 2

\* ENABLED ParseNext, written out: the guards of the six steps.
ScanCanStep ==
  \/ pc = "outer" /\ i < Len(lines) /\ ChapterMatch(LineAt(i)).ok
  \/ /\ pc = "outer" /\ i < Len(lines)
     /\ ~ChapterMatch(LineAt(i)).ok /\ SectionMatch(LineAt(i)).ok
  \/ /\ pc = "outer" /\ i < Len(lines)
     /\ ~ChapterMatch(LineAt(i)).ok /\ ~SectionMatch(LineAt(i)).ok
  \/ pc = "inner" /\ j < Len(lines) /\ ~IsBoundary(LineAt(j))
  \/ pc = "inner" /\ (IF j < Len(lines) THEN IsBoundary(LineAt(j)) ELSE TRUE)
  \/ pc = "outer" /\ i >= Len(lines)

C10_ScanTerminates ==
  /\ [](ScanMeasure >= 0)
  /\ [](pc = "done" \/ ScanCanStep)
  /\ [][ScanMeasure' < ScanMeasure]_vars
  /\ [][i' >= i]_vars
  /\ [][(pc = "outer" /\ pc' = "outer") => i' = i + 1]_vars
  /\ [][(pc = "inner" /\ pc' = "outer") => (i' = j /\ j >= i + 1)]_vars
  /\ [](\A a, b \in 1..Len(h_outer) : a # b => h_outer[a] # h_outer[b])

\* A finished scan of a text with a chapter heading, a section heading with
\* a body, and a line that matches nothing.
C10_Witness ==
  /\ pc = "done"
  /\ i = Len(lines)
  /\ \E a, b, c \in 0..(Len(lines) - 1) :
       /\ IsChapterLine(a)
       /\ IsSectionLine(b)
       /\ c \in Visited /\ ~IsHeadingLine(c) /\ ~IsBlankLine(c)
  /\ Len(sections) >= 1

(***************************************************************************)
(* The vocabulary of the properties of the index.                          *)
(***************************************************************************)
CallKey == <<call.dir, call.name>>

\* The builds of the collection of the last call that did not fail.
BuildsOfKey ==
  {b \in 1..Len(h_builds) :
     h_builds[b].key = CallKey /\ h_builds[b].outcome = "ok"}

LastBuildOfKey == CHOOSE b \in BuildsOfKey : \A c \in BuildsOfKey : b >= c

\* Whether result r is record rec, as built: its metadata and its text.
IsResultOf(r, rec) ==
  /\ r.section = rec.Section
  /\ r.section_title = rec.section_title
  /\ r.chapter = rec.chapter
  /\ r.chapter_title = rec.chapter_title
  /\ r.content = PageContent(rec)

ResultsAmong(records) ==
  \A k \in 1..Len(call.result) :
    \E m \in 1..Len(records) : IsResultOf(call.result[k], records[m])

ConfiguredQuery ==
  call.op = "query" /\ call.dir # Unset /\ call.name # Unset

(***************************************************************************)
(* C2: after two builds of the same collection a query of it returns       *)
(* records of the second build only.                                       *)
(***************************************************************************)
C2_RebuildReplaces ==
  (ConfiguredQuery /\ Cardinality(BuildsOfKey) >= 2) =>
    ResultsAmong(CorpusOf(h_builds[LastBuildOfKey].count))

(***************************************************************************)
(* C3: a query of a collection that no build has made fails; it returns    *)
(* no list of results.                                                     *)
(***************************************************************************)
C3_QueryBeforeBuildFails ==
  (ConfiguredQuery /\ BuildsOfKey = {}) => call.outcome # "ok"

(***************************************************************************)
(* C4: a build or a query with the directory or the collection name not    *)
(* set fails with the configuration error (EnvironmentError) and has not   *)
(* opened the index.                                                       *)
(***************************************************************************)
C4_ConfigurationCheckedFirst ==
  (call.op \in {"build", "query"} /\ (call.dir = Unset \/ call.name = Unset))
    => (call.outcome = "EnvironmentError" /\ ~call.opened)

(***************************************************************************)
(* C6: a query leaves the persisted state as it found it: the same         *)
(* collections, each with the same documents.                              *)
(***************************************************************************)
C6_QueryIsPureRead == [][call'.op = "query" => store' = store]_vars

(***************************************************************************)
(* C7: after one build of M records into a collection that did not exist,  *)
(* a query succeeds and returns min(DEFAULT_TOP_K, M) results, each with   *)
(* the metadata and the text of one of the built records.                  *)
(***************************************************************************)
C7_TopKOfSingleBuild ==
  (ConfiguredQuery /\ Cardinality(BuildsOfKey) = 1
     /\ \A b \in 1..Len(h_builds) : h_builds[b].key = CallKey => b \in BuildsOfKey)
    => /\ call.outcome = "ok"
       /\ Len(call.result)
            = Min(DEFAULT_TOP_K, Len(CorpusOf(h_builds[LastBuildOfKey].count)))
       /\ ResultsAmong(CorpusOf(h_builds[LastBuildOfKey].count))

\* A query after one build of more than DEFAULT_TOP_K records that returned
\* DEFAULT_TOP_K of them, record 1 not among them.
C7_Witness ==
  /\ ConfiguredQuery
  /\ Cardinality(BuildsOfKey) = 1
  /\ Len(h_builds) = 1
  /\ Len(CorpusOf(h_builds[LastBuildOfKey].count)) > DEFAULT_TOP_K
  /\ Len(call.result) = DEFAULT_TOP_K
  /\ \A k \in 1..Len(call.result) : call.result[k].section # 1

====
